---- MODULE Spec2Model ----
(***************************************************************************)
(* The resumable (TUS) upload state machine of gridwalk-os:                *)
(*   POST  /layers            post_tus   (Create)                          *)
(*   PATCH /layers/:layer_id  patch_tus  (AppendChunk + ingestion)         *)
(* Every handler is an async function; it is modelled one action per       *)
(* stretch of code between two await points, so that requests interleave   *)
(* exactly where the runtime lets them. Requests are numbered in the order *)
(* of their arrival; the requests in flight are a set of handler futures.  *)
(***************************************************************************)
EXTENDS Integers, Sequences, FiniteSets, TLC

(* ------------------------------ bounds -------------------------------- *)
\* number of requests that can be in flight at once
NReq == 2
\* number of layer ids Uuid::new_v4 hands out
MaxLayers == 1
\* largest Upload-Length, Upload-Offset and body length a client sends
MaxSize == 2
\* number of requests that arrive in a run
MaxNow == 3
\* largest number of features in an uploaded dataset
MaxFeatures == 2

Ids == 1..MaxLayers

(* ------------------------------ values -------------------------------- *)
\* Option<i64>
None == <<>>
Some(n) == <<n>>
IsSome(o) == o # None
Unwrap(o) == o[1]

\* enum LayerStatus
LayerStatus == {"Uploading", "Processing", "Ready", "Error", "Cancelled", "Failed"}

\* Upload-Length parses as any i64, negative values included
UploadLengths == (-1)..MaxSize
TotalSizes == {None} \cup {Some(n) : n \in UploadLengths}
\* Upload-Offset header values and body lengths a client sends
UploadOffsets == 0..MaxSize
BodyLens == 0..MaxSize

\* struct Layer (name, upload_type and created_at play no part in the protocol)
NewLayer(id, total, t) ==
    [id |-> id, status |-> "Uploading", total_size |-> total,
     current_offset |-> 0, updated_at |-> t]

NoLayer == NewLayer(0, None, 0)

\* a response: status code, error kind, the 409 payload, the Upload-Offset header
NoResp == [code |-> 0, err |-> "", expected |-> -1, received |-> -1, offset |-> -1]
Resp(code, err) == [NoResp EXCEPT !.code = code, !.err = err]

\* the 500 answers that come from the ingestion of a completed upload
IngestionErrors ==
    {"OpenDataset", "Schema", "CreateLayer", "Begin", "DbError", "JoinError",
     "GdalError", "NoFeatures", "Commit"}

\* a handler future: its arguments, the await it is parked on and its locals
NewReq(op, pc, id, off, len) ==
    [op |-> op, pc |-> pc, id |-> id, upload_offset |-> off, len |-> len,
     layer |-> NoLayer, tx |-> "none", rows |-> 0, feats |-> 0,
     ingest |-> "none", replay |-> FALSE, rival |-> FALSE]

\* no future: the request has not arrived yet, or it has been answered
IdleReq == NewReq("none", "idle", 0, 0, 0)

\* what is known of the request numbered n, future q, once it has been answered
Outcome(n, q, resp, ingest) ==
    [n |-> n, op |-> q.op, id |-> q.id, upload_offset |-> q.upload_offset,
     len |-> q.len, resp |-> resp, ingest |-> ingest,
     tx |-> IF q.tx = "open" THEN "rolledback" ELSE q.tx,
     replay |-> q.replay, rival |-> q.rival]

NoOutcome == Outcome(0, IdleReq, NoResp, "none")

\* requests are numbered in the order of their arrival
Req == 1..MaxNow

\* mpsc::channel::<String>(100)
ChannelCapacity == 100

\* one run of the pipeline over a dataset of nfeat features (pfail, pjoin, ifail as in
\* PipelineRun below): the producer task, the channel, the transaction, the consumer
\* loop, the statements executed in the transaction, how the request ended; the
\* statement made from the k-th feature is k
NewPipe(nfeat, pfail, pjoin, ifail) ==
    [nfeat |-> nfeat, pfail |-> pfail, pjoin |-> pjoin, ifail |-> ifail,
     prod |-> "running", feature_count |-> 0, chan |-> <<>>,
     tx |-> "none", commits |-> 0, rollbacks |-> 0,
     cons |-> "running", executed |-> <<>>, exit |-> "none"]

\* no run
IdlePipe == [NewPipe(0, 0, FALSE, 0) EXCEPT !.prod = "idle", !.cons = "idle"]

VARIABLES
    db,         \* MetadataStore: gridwalk.layers, a function id -> Layer row
    file,       \* ChunkStore: temp_data_path/<id>, a function id -> byte length
    nextId,     \* the next id Uuid::new_v4 returns (ids are never reused)
    now,        \* chrono::Utc::now(); it ticks when a request arrives
    req,        \* the handler future of every request, by request number
    commitLog,  \* SpatialStore: per layer, <<rows inserted, features read>> of every committed transaction
    last,       \* history: the outcome of the request answered most recently
    applied,    \* history: per layer, the <<offset, len>> of every chunk answered 204
    dirty,      \* history: the layers with a request aborted or failed outside the ingestion
    pipe        \* one ingestion run taken step by step: producer, channel and consumer

vars == <<db, file, nextId, now, req, commitLog, last, applied, dirty, pipe>>

Exists(id) == id \in DOMAIN db
InFlight(r) == req[r].pc # "idle"
Quiet == \A r \in Req : ~InFlight(r)

Init ==
    /\ db = <<>>
    /\ file = <<>>
    /\ nextId = 1
    /\ now = 0
    /\ req = [r \in Req |-> IdleReq]
    /\ commitLog = [i \in Ids |-> {}]
    /\ last = NoOutcome
    /\ applied = [i \in Ids |-> {}]
    /\ dirty = {}
    /\ pipe = IdlePipe

(* ------------------------------ stores -------------------------------- *)
\* Layer::save: INSERT ... ON CONFLICT (id) DO UPDATE, every column from the struct
SaveRow(layer) ==
    [i \in DOMAIN db \cup {layer.id} |-> IF i = layer.id THEN layer ELSE db[i]]

\* variant: no file is created
CreatedFileNone(id) == file

\* fs::File::create: a new empty file (an existing one is truncated)
CreatedFile(id) ==
    [i \in DOMAIN file \cup {id} |-> IF i = id THEN 0 ELSE file[i]]

\* variant: write instead of write_all, the last byte of a chunk may be left out
AppendedFileShort(id, n) ==
    [file EXCEPT ![id] = @ + (IF n > 0 THEN n - 1 ELSE 0)]

\* OpenOptions::append + write_all: n bytes land at the end of the file
AppendedFile(id, n) ==
    [file EXCEPT ![id] = @ + n]

(* --------------------------- request frame ---------------------------- *)
\* a request arrives while fewer than `limit` are in flight: the clock moves, the
\* request gets the next number
Arrive(limit) ==
    /\ Cardinality({r \in Req : InFlight(r)}) < limit
    /\ now < MaxNow
    /\ now' = now + 1

\* return Err(..) / Ok(..): the future of request r ends (a transaction still open is dropped);
\* rest are the futures as they stand at that moment
Finish(r, resp, ingest, rest) ==
    /\ req' = [rest EXCEPT ![r] = IdleReq]
    /\ last' = Outcome(r, req[r], resp, ingest)
    /\ dirty' = IF resp.code \in {500, -1} /\ resp.err \notin IngestionErrors
                THEN dirty \cup {req[r].id}
                ELSE dirty
    /\ UNCHANGED pipe

Return(r, resp, ingest) == Finish(r, resp, ingest, req)

\* the future of request r goes on to its next await as q2
Continue(r, q2) ==
    /\ req' = [req EXCEPT ![r] = q2]
    /\ UNCHANGED <<last, dirty, pipe>>

Goto(r, pc) == Continue(r, [req[r] EXCEPT !.pc = pc])

(* ------------------------- POST /layers (Create) ---------------------- *)
\* post_tus up to the first await: header validation, then the Layer struct with a fresh id
StartCreate(limit, hdr_ok, total) ==
    /\ Arrive(limit)
    /\ IF hdr_ok
       THEN /\ nextId <= MaxLayers
            /\ nextId' = nextId + 1
            /\ req' = [req EXCEPT ![now'] =
                         [NewReq("create", "mkfile", nextId, 0, 0)
                            EXCEPT !.layer = NewLayer(nextId, total, now')]]
            /\ UNCHANGED last
       ELSE /\ last' = Outcome(now', NewReq("create", "idle", 0, 0, 0),
                               Resp(400, "Header"), "none")
            /\ UNCHANGED <<req, nextId>>
    /\ UNCHANGED <<db, file, commitLog, applied, dirty, pipe>>

\* fs::File::create(&upload_file_path).await
CreateFile(r, ok) ==
    /\ req[r].pc = "mkfile"
    /\ IF ok
       THEN /\ file' = CreatedFile(req[r].id)
            /\ Goto(r, "csave")
       ELSE /\ Return(r, Resp(500, "CreateFile"), "none")
            /\ UNCHANGED file
    /\ UNCHANGED <<db, nextId, now, commitLog, applied>>

\* layer.save(..).await and the 201 response
CreateSave(r, ok) ==
    /\ req[r].pc = "csave"
    /\ IF ok
       THEN /\ db' = SaveRow(req[r].layer)
            /\ Return(r, Resp(201, ""), "none")
       ELSE /\ Return(r, Resp(500, "SaveLayer"), "none")
            /\ UNCHANGED db
    /\ UNCHANGED <<file, nextId, now, commitLog, applied>>

(* --------------------- PATCH /layers/:id (AppendChunk) ---------------- *)
\* patch_tus up to Layer::get: the three headers are validated, nothing is read yet
StartPatch(limit, hdr_ok, id, off, len) ==
    /\ Arrive(limit)
    /\ IF hdr_ok
       THEN /\ req' = [req EXCEPT ![now'] =
                         [NewReq("patch", "get", id, off, len)
                            EXCEPT !.replay = <<off, len>> \in applied[id]]]
            /\ UNCHANGED last
       ELSE /\ last' = Outcome(now', NewReq("patch", "idle", id, off, len),
                               Resp(400, "Header"), "none")
            /\ UNCHANGED req
    /\ UNCHANGED <<db, file, nextId, commitLog, applied, dirty, pipe>>

\* variant: the size check forgets the offset already uploaded
TooLargeNoOffset(layer, off, len) ==
    IsSome(layer.total_size) /\ len > Unwrap(layer.total_size)

\* the size check: upload_offset + body.len() > total_size, when total_size is known
TooLarge(layer, off, len) ==
    IsSome(layer.total_size) /\ off + len > Unwrap(layer.total_size)

\* variant: the 409 payload reports the client's offset as the expected one
CheckChunkEcho(layer, off, len) ==
    IF layer.status # "Uploading" THEN Resp(409, "NotUploading")
    ELSE IF off # layer.current_offset
         THEN [Resp(409, "OffsetMismatch") EXCEPT !.expected = off, !.received = off]
    ELSE IF TooLarge(layer, off, len) THEN Resp(413, "TooLarge")
    ELSE NoResp

\* variant: the size check is made first
CheckChunkSizeFirst(layer, off, len) ==
    IF TooLarge(layer, off, len) THEN Resp(413, "TooLarge")
    ELSE IF layer.status # "Uploading" THEN Resp(409, "NotUploading")
    ELSE IF off # layer.current_offset
         THEN [Resp(409, "OffsetMismatch") EXCEPT !.expected = layer.current_offset,
                                                  !.received = off]
    ELSE NoResp

\* the three checks after Layer::get, in the order of the code; NoResp when all pass
CheckChunk(layer, off, len) ==
    IF layer.status # "Uploading" THEN Resp(409, "NotUploading")
    ELSE IF off # layer.current_offset
         THEN [Resp(409, "OffsetMismatch") EXCEPT !.expected = layer.current_offset,
                                                  !.received = off]
    ELSE IF TooLarge(layer, off, len) THEN Resp(413, "TooLarge")
    ELSE NoResp

\* Layer::get(..).await (fetch_one: a missing row is an error) and the checks
GetLayer(r, ok) ==
    /\ req[r].pc = "get"
    /\ IF ~ok \/ ~Exists(req[r].id)
       THEN Return(r, Resp(500, "Database"), "none")
       ELSE LET layer == db[req[r].id]
                verdict == CheckChunk(layer, req[r].upload_offset, req[r].len)
            IN  IF verdict # NoResp
                THEN Return(r, verdict, "none")
                ELSE Continue(r, [req[r] EXCEPT !.pc = "append", !.layer = layer])
    /\ UNCHANGED <<db, file, nextId, now, commitLog, applied>>

\* open(append), write_all, flush: on an error `written` of the body's bytes are in the file
AppendFile(r, ok, written) ==
    /\ req[r].pc = "append"
    /\ written <= req[r].len
    /\ ok => written = req[r].len
    /\ IF ok /\ req[r].id \in DOMAIN file
       THEN /\ file' = AppendedFile(req[r].id, req[r].len)
            /\ Goto(r, "flushed")
       ELSE /\ file' = IF req[r].id \in DOMAIN file THEN AppendedFile(req[r].id, written) ELSE file
            /\ Return(r, Resp(500, "File"), "none")
    /\ UNCHANGED <<db, nextId, now, commitLog, applied>>

\* layer.current_offset += body.len(); layer.updated_at = now
Advanced(layer, len, t) ==
    [layer EXCEPT !.current_offset = @ + len, !.updated_at = t]

\* variant: any byte uploaded completes an upload of known length
UploadCompleteEarly(layer) ==
    IsSome(layer.total_size) /\ layer.current_offset > 0

\* the completion test: total_size known and current_offset >= total_size
UploadComplete(layer) ==
    IsSome(layer.total_size) /\ layer.current_offset >= Unwrap(layer.total_size)

\* the status the handler puts in its struct when the upload is complete
CompletedStatus == "Ready"

\* after flush: the struct is advanced; a complete upload is marked and its dataset opened
AfterFlush(r, ok) ==
    /\ req[r].pc = "flushed"
    /\ LET layer == Advanced(req[r].layer, req[r].len, now)
       IN  IF ~UploadComplete(layer)
           THEN ok /\ Continue(r, [req[r] EXCEPT !.pc = "save", !.layer = layer])
           ELSE IF ok
                THEN Continue(r, [req[r] EXCEPT !.pc = "schema", !.ingest = "running",
                                     !.layer = [layer EXCEPT !.status = CompletedStatus]])
                ELSE Return(r, Resp(500, "OpenDataset"), "failed")
    /\ UNCHANGED <<db, file, nextId, now, commitLog, applied>>

\* extract_layer_schema(dataset, vector_connector).await
ExtractSchema(r, ok) ==
    /\ req[r].pc = "schema"
    /\ IF ok THEN Goto(r, "create_layer")
             ELSE Return(r, Resp(500, "Schema"), "failed")
    /\ UNCHANGED <<db, file, nextId, now, commitLog, applied>>

\* vector_connector.create_layer(&schema).await
CreateLayerTable(r, ok) ==
    /\ req[r].pc = "create_layer"
    /\ IF ok THEN Goto(r, "begin")
             ELSE Return(r, Resp(500, "CreateLayer"), "failed")
    /\ UNCHANGED <<db, file, nextId, now, commitLog, applied>>

\* the producer is spawned, then postgis_connector.pool.begin().await
BeginTx(r, ok) ==
    /\ req[r].pc = "begin"
    /\ IF ok THEN Continue(r, [req[r] EXCEPT !.pc = "drain", !.tx = "open"])
             ELSE Return(r, Resp(500, "Begin"), "failed")
    /\ UNCHANGED <<db, file, nextId, now, commitLog, applied>>

(* ------------------------- the ingestion pipeline --------------------- *)
\* One run of producer and consumer over a dataset of nfeat features.
\*   pfail = 0: the producer meets no error; pfail = k > 0: it fails before sending its
\*              k-th statement (k = 1 also covers a dataset it cannot open);
\*   pjoin:     that failure is a panic (JoinError) rather than Err(String);
\*   ifail = 0: every insert works; ifail = k > 0: the k-th execute fails.
\* The consumer executes the statements in the order sent until one fails or the
\* channel closes; the producer's result is looked at only when no insert failed.
Sent(nfeat, pfail) == IF pfail = 0 THEN nfeat ELSE pfail - 1

\* variant: a dataset without features is ingested
PipelineRunEmptyOk(nfeat, pfail, pjoin, ifail) ==
    LET sent == Sent(nfeat, pfail)
        dbErr == ifail # 0 /\ ifail <= sent
    IN  [inserted |-> IF dbErr THEN ifail - 1 ELSE sent,
         outcome |-> IF dbErr THEN "DbError"
                     ELSE IF pfail # 0 THEN (IF pjoin THEN "JoinError" ELSE "GdalError")
                     ELSE "Ok"]

\* variant: the producer's error is not looked at once a statement was executed
PipelineRunPartial(nfeat, pfail, pjoin, ifail) ==
    LET sent == Sent(nfeat, pfail)
        dbErr == ifail # 0 /\ ifail <= sent
    IN  [inserted |-> IF dbErr THEN ifail - 1 ELSE sent,
         outcome |-> IF dbErr THEN "DbError"
                     ELSE IF sent > 0 THEN "Ok"
                     ELSE IF pfail # 0 THEN (IF pjoin THEN "JoinError" ELSE "GdalError")
                     ELSE "NoFeatures"]

PipelineRun(nfeat, pfail, pjoin, ifail) ==
    LET sent == Sent(nfeat, pfail)
        dbErr == ifail # 0 /\ ifail <= sent
    IN  [inserted |-> IF dbErr THEN ifail - 1 ELSE sent,
         outcome |-> IF dbErr THEN "DbError"
                     ELSE IF pfail # 0 THEN (IF pjoin THEN "JoinError" ELSE "GdalError")
                     ELSE IF nfeat = 0 THEN "NoFeatures"
                     ELSE "Ok"]

\* the consumer loop, gdal_handle.await and the three rollback exits
Drain(r, nfeat, pfail, pjoin, ifail) ==
    /\ req[r].pc = "drain"
    /\ pfail <= nfeat + 1
    /\ ifail <= nfeat
    /\ pjoin => pfail # 0
    /\ LET run == PipelineRun(nfeat, pfail, pjoin, ifail)
       IN  IF run.outcome = "Ok"
           THEN Continue(r, [req[r] EXCEPT !.pc = "commit", !.rows = run.inserted,
                                      !.feats = nfeat])
           ELSE Return(r, Resp(500, run.outcome), "failed")
    /\ UNCHANGED <<db, file, nextId, now, commitLog, applied>>

\* variant: the result of commit is ignored (let _ = tx.commit().await)
CommitIgnored(r, ok) ==
    /\ req[r].pc = "commit"
    /\ Continue(r, [req[r] EXCEPT !.pc = "save",
                             !.tx = IF ok THEN "committed" ELSE "rolledback"])
    /\ commitLog' = IF ok THEN [commitLog EXCEPT ![req[r].id] = @ \cup {<<req[r].rows, req[r].feats>>}]
                    ELSE commitLog
    /\ UNCHANGED <<db, file, nextId, now, applied>>

\* tx.commit().await
Commit(r, ok) ==
    /\ req[r].pc = "commit"
    /\ IF ok
       THEN /\ Continue(r, [req[r] EXCEPT !.pc = "save", !.tx = "committed"])
            /\ commitLog' = [commitLog EXCEPT ![req[r].id] = @ \cup {<<req[r].rows, req[r].feats>>}]
       ELSE /\ Return(r, Resp(500, "Commit"), "failed")
            /\ UNCHANGED commitLog
    /\ UNCHANGED <<db, file, nextId, now, applied>>

\* history: request r has been answered 204; the requests in flight that carry the same
\* non-empty chunk position (layer and offset) now have a rival that succeeded
Rivals(r) ==
    [p \in Req |->
        IF /\ p # r /\ req[p].op = "patch" /\ req[p].id = req[r].id
           /\ req[p].upload_offset = req[r].upload_offset
           /\ req[p].len > 0 /\ req[r].len > 0
        THEN [req[p] EXCEPT !.rival = TRUE] ELSE req[p]]

\* layer.save(..).await and the 204 response with Upload-Offset
SaveLayer(r, ok) ==
    /\ req[r].pc = "save"
    /\ LET ingested == IF req[r].ingest = "running" THEN "ok" ELSE req[r].ingest
       IN  IF ok
           THEN /\ db' = SaveRow(req[r].layer)
                /\ applied' = [applied EXCEPT ![req[r].id] = @ \cup {<<req[r].upload_offset, req[r].len>>}]
                /\ Finish(r, [Resp(204, "") EXCEPT !.offset = req[r].layer.current_offset],
                          ingested, Rivals(r))
           ELSE /\ Return(r, Resp(500, "SaveLayer"), ingested)
                /\ UNCHANGED <<db, applied>>
    /\ UNCHANGED <<file, nextId, now, commitLog>>

\* the client disconnects: the handler future is dropped at the await it is parked on
Abort(r) ==
    /\ InFlight(r)
    /\ Return(r, Resp(-1, "Aborted"), IF req[r].ingest = "running" THEN "aborted" ELSE req[r].ingest)
    /\ UNCHANGED <<db, file, nextId, now, commitLog, applied>>

(* ---------------------------- specification --------------------------- *)
Step(r) ==
    \/ \E ok \in BOOLEAN : CreateFile(r, ok)
    \/ \E ok \in BOOLEAN : CreateSave(r, ok)
    \/ \E ok \in BOOLEAN : GetLayer(r, ok)
    \/ \E ok \in BOOLEAN, written \in BodyLens : AppendFile(r, ok, written)
    \/ \E ok \in BOOLEAN : AfterFlush(r, ok)
    \/ \E ok \in BOOLEAN : ExtractSchema(r, ok)
    \/ \E ok \in BOOLEAN : CreateLayerTable(r, ok)
    \/ \E ok \in BOOLEAN : BeginTx(r, ok)
    \/ \E nfeat \in 0..MaxFeatures, pfail \in 0..(MaxFeatures + 1), pjoin \in BOOLEAN,
          ifail \in 0..MaxFeatures : Drain(r, nfeat, pfail, pjoin, ifail)
    \/ \E ok \in BOOLEAN : Commit(r, ok)
    \/ \E ok \in BOOLEAN : SaveLayer(r, ok)
    \/ Abort(r)

Start(limit) ==
    \/ \E hdr_ok \in BOOLEAN, total \in TotalSizes : StartCreate(limit, hdr_ok, total)
    \/ \E hdr_ok \in BOOLEAN, id \in Ids, off \in UploadOffsets, len \in BodyLens :
          StartPatch(limit, hdr_ok, id, off, len)

\* requests arrive at any time and run concurrently
Next == Start(NReq) \/ \E r \in Req : Step(r)

Spec == Init /\ [][Next]_vars

\* one client at a time: a request arrives only when no other is in flight
NextSeq == Start(1) \/ \E r \in Req : Step(r)

SpecSeq == Init /\ [][NextSeq]_vars

(* ------------------- the pipeline, one step at a time ----------------- *)
\* a dataset that does not fit in the channel
LargeDataset == ChannelCapacity + 2

\* the datasets and failures a run can meet: the small datasets with every failure
\* point (the same inputs as Drain), and a large one failing nowhere, at its first or
\* at its last feature
PipeStarts ==
    {NewPipe(nfeat, pfail, pjoin, ifail) :
        nfeat \in 0..MaxFeatures, pfail \in 0..(MaxFeatures + 1), pjoin \in BOOLEAN,
        ifail \in 0..MaxFeatures}
    \cup
    {NewPipe(LargeDataset, pfail, FALSE, ifail) :
        pfail \in {0, LargeDataset}, ifail \in {0, 1, LargeDataset}}

\* the run starts: the channel is created and gdal_handle is spawned, nothing else moves
InitPipe ==
    /\ db = <<>>
    /\ file = <<>>
    /\ nextId = 1
    /\ now = 0
    /\ req = [r \in Req |-> IdleReq]
    /\ commitLog = [i \in Ids |-> {}]
    /\ last = NoOutcome
    /\ applied = [i \in Ids |-> {}]
    /\ dirty = {}
    /\ pipe \in {p \in PipeStarts :
                   p.pfail <= p.nfeat + 1 /\ p.ifail <= p.nfeat /\ (p.pjoin => p.pfail # 0)}

\* variant: sql_receiver outlives the request
ReceiverLeaked == FALSE

\* the consumer's side of the channel is gone: patch_tus has returned (or its future was
\* dropped), which drops sql_receiver
ReceiverDropped == pipe.exit # "none"

\* the producer's side of the channel is gone: the blocking task has ended
SenderDropped == pipe.prod # "running"

\* variant: an unbounded channel
ChannelUnbounded(chan) == TRUE

\* blocking_send goes through only while the channel holds fewer statements than its capacity
ChannelHasRoom(chan) == Len(chan) < ChannelCapacity

\* postgis_connector.pool.begin().await; an error returns at once, the producer still running
Begin(ok) ==
    /\ pipe.exit = "none"
    /\ pipe.tx = "none"
    /\ pipe' = IF ok THEN [pipe EXCEPT !.tx = "open"]
                     ELSE [pipe EXCEPT !.exit = "returned"]
    /\ UNCHANGED <<db, file, nextId, now, req, commitLog, last, applied, dirty>>

\* the producer's loop body: the next feature's statement is made and sent
\* (blocking_send waits while the channel is full and fails when the receiver is gone)
Produce ==
    /\ pipe.prod = "running"
    /\ pipe.feature_count < pipe.nfeat
    /\ pipe.pfail # pipe.feature_count + 1
    /\ IF ReceiverDropped
       THEN pipe' = [pipe EXCEPT !.prod = "ChannelClosed"]
       ELSE /\ ChannelHasRoom(pipe.chan)
            /\ pipe' = [pipe EXCEPT !.chan = Append(@, pipe.feature_count + 1),
                                    !.feature_count = @ + 1]
    /\ UNCHANGED <<db, file, nextId, now, req, commitLog, last, applied, dirty>>

\* the producer fails (open_dataset, into_layer, feature_to_insert_statement) or panics
ProducerFails ==
    /\ pipe.prod = "running"
    /\ pipe.pfail = pipe.feature_count + 1
    /\ pipe' = [pipe EXCEPT !.prod = IF pipe.pjoin THEN "JoinError" ELSE "GdalError"]
    /\ UNCHANGED <<db, file, nextId, now, req, commitLog, last, applied, dirty>>

\* variant: an empty dataset is no error
EndOfFeaturesEmptyOk(feature_count) == "Ok"

\* the producer's result once the iterator is exhausted: feature_count == 0 is an error
EndOfFeatures(feature_count) == IF feature_count = 0 THEN "NoFeatures" ELSE "Ok"

\* the iterator is exhausted
ProducerEnds ==
    /\ pipe.prod = "running"
    /\ pipe.pfail = 0
    /\ pipe.feature_count = pipe.nfeat
    /\ pipe' = [pipe EXCEPT !.prod = EndOfFeatures(pipe.feature_count)]
    /\ UNCHANGED <<db, file, nextId, now, req, commitLog, last, applied, dirty>>

\* variant: the receiver hands out the statement sent last
ReceivedLast(chan) ==
    [sql |-> chan[Len(chan)], rest |-> SubSeq(chan, 1, Len(chan) - 1)]

\* sql_receiver.recv(): the statement sent first, and what stays in the channel
Received(chan) ==
    [sql |-> Head(chan), rest |-> Tail(chan)]

\* the consumer's loop body: recv, execute in the transaction, inserted_count += 1
Consume ==
    /\ pipe.exit = "none"
    /\ pipe.tx = "open"
    /\ pipe.cons = "running"
    /\ pipe.chan # <<>>
    /\ LET got == Received(pipe.chan)
       IN  IF pipe.ifail = Len(pipe.executed) + 1
           THEN pipe' = [pipe EXCEPT !.chan = got.rest, !.cons = "DbError"]
           ELSE pipe' = [pipe EXCEPT !.chan = got.rest,
                                     !.executed = Append(@, got.sql)]
    /\ UNCHANGED <<db, file, nextId, now, req, commitLog, last, applied, dirty>>

\* recv returns None: the channel is empty and the sender is gone
ConsumerEnds ==
    /\ pipe.exit = "none"
    /\ pipe.tx = "open"
    /\ pipe.cons = "running"
    /\ pipe.chan = <<>>
    /\ SenderDropped
    /\ pipe' = [pipe EXCEPT !.cons = "Ok"]
    /\ UNCHANGED <<db, file, nextId, now, req, commitLog, last, applied, dirty>>

\* what patch_tus makes of the run: db_result first, then gdal_result
PipeOutcome == IF pipe.cons = "DbError" THEN "DbError" ELSE pipe.prod

\* variant: the producer's result is not looked at
VerdictIgnoresProducer(cons, prod) ==
    IF cons = "DbError" THEN "rollback" ELSE "commit"

\* the three rollback exits and the way to commit, from db_result and gdal_result
Verdict(cons, prod) ==
    IF cons = "DbError" THEN "rollback"
    ELSE IF prod # "Ok" THEN "rollback"
    ELSE "commit"

\* db_result is an error, or the producer joined with an error: tx.rollback(), return
RollbackExit ==
    /\ pipe.exit = "none"
    /\ pipe.cons \in {"DbError", "Ok"}
    /\ pipe.cons = "Ok" => SenderDropped
    /\ Verdict(pipe.cons, pipe.prod) = "rollback"
    /\ pipe' = [pipe EXCEPT !.tx = "rolledback", !.rollbacks = @ + 1,
                            !.exit = "returned"]
    /\ UNCHANGED <<db, file, nextId, now, req, commitLog, last, applied, dirty>>

\* both results are Ok: tx.commit().await, then the request goes on to save the row
CommitExit(ok) ==
    /\ pipe.exit = "none"
    /\ pipe.cons = "Ok"
    /\ SenderDropped
    /\ Verdict(pipe.cons, pipe.prod) = "commit"
    /\ pipe' = [pipe EXCEPT !.tx = IF ok THEN "committed" ELSE "commit_failed",
                            !.commits = @ + 1, !.exit = "returned"]
    /\ UNCHANGED <<db, file, nextId, now, req, commitLog, last, applied, dirty>>

\* the client disconnects: the future is dropped at begin, in the consumer loop or at
\* gdal_handle.await; sql_receiver is dropped, and an open transaction rolls back on drop
Dropped ==
    /\ pipe.exit = "none"
    /\ pipe' = [pipe EXCEPT !.exit = "dropped",
                            !.tx = IF @ = "open" THEN "rolledback" ELSE @,
                            !.rollbacks = IF pipe.tx = "open" THEN @ + 1 ELSE @]
    /\ UNCHANGED <<db, file, nextId, now, req, commitLog, last, applied, dirty>>

\* the run is over: the request has ended and the producer task has ended
PipeDone == pipe.exit # "none" /\ pipe.prod # "running"

NextPipe ==
    \/ \E ok \in BOOLEAN : Begin(ok)
    \/ Produce
    \/ ProducerFails
    \/ ProducerEnds
    \/ Consume
    \/ ConsumerEnds
    \/ RollbackExit
    \/ \E ok \in BOOLEAN : CommitExit(ok)
    \/ Dropped

SpecPipe == InitPipe /\ [][NextPipe]_vars

\* the tasks and the awaited futures are scheduled fairly; nothing says a client disconnects
FairPipe ==
    /\ WF_vars(\E ok \in BOOLEAN : Begin(ok))
    /\ WF_vars(Produce)
    /\ WF_vars(ProducerFails)
    /\ WF_vars(ProducerEnds)
    /\ WF_vars(Consume)
    /\ WF_vars(ConsumerEnds)
    /\ WF_vars(RollbackExit)
    /\ WF_vars(\E ok \in BOOLEAN : CommitExit(ok))

SpecPipeFair == SpecPipe /\ FairPipe

(* ------------------------------- claims ------------------------------- *)
\* the request r in flight is answered in this step
Answered(r) == InFlight(r) /\ last'.n = r

\* r is answered by its Layer::get step (the row was read and a check decided)
AnsweredByChecks(r) ==
    /\ req[r].pc = "get"
    /\ Answered(r)
    /\ last'.resp.code \in {409, 413}

\* r leaves Layer::get with the row read: answered by a check, or on to the append
PassedGet(r) ==
    /\ req[r].pc = "get"
    /\ AnsweredByChecks(r) \/ req'[r].pc = "append"

\* r is answered 204 in this step
Succeeds(r) ==
    /\ req[r].pc = "save"
    /\ Answered(r)
    /\ last'.resp.code = 204

\* C1: of two concurrent AppendChunk requests on the same layer carrying the same
\* expected offset (and a non-empty body, so that the first one moves the offset),
\* at most one is answered with success: no AppendChunk is answered 204 after a rival
\* (same layer, same offset, in flight at the same time) has been answered 204.
C1_ExactlyOneSucceeds ==
    ~(last.op = "patch" /\ last.resp.code = 204 /\ last.rival)

\* C2: at the moment an AppendChunk is answered 204, the persisted current_offset of
\* its layer equals the byte length of the layer's file, when the earlier requests on
\* the layer succeeded or failed with 409, 413 or a 500 of the ingestion.
C2_OffsetEqualsLengthAfterSuccess ==
    [][\A r \in Req :
          (Succeeds(r) /\ req[r].id \notin dirty)
          => db'[req[r].id].current_offset = file'[req[r].id]]_vars

\* C3: every persisted layer has a file, and the file is at least as long as the
\* persisted current_offset (in every reachable state, so also in every state with no
\* request in flight, whatever step earlier requests failed or were aborted at).
C3_DiskNeverBehindMetadata ==
    \A id \in DOMAIN db :
        /\ id \in DOMAIN file
        /\ file[id] >= db[id].current_offset

\* C3 witness: at rest after an aborted request, a file is strictly longer than the offset
C3_Witness ==
    /\ Quiet
    /\ last.op = "patch" /\ last.resp.code = -1
    /\ \E id \in DOMAIN db : file[id] > db[id].current_offset /\ db[id].current_offset > 0

\* C4: for every persisted layer with a known total_size,
\* 0 <= current_offset <= total_size.
C4_OffsetWithinTotal ==
    \A id \in DOMAIN db :
        IsSome(db[id].total_size) =>
            /\ 0 <= db[id].current_offset
            /\ db[id].current_offset <= Unwrap(db[id].total_size)

\* C5: an AppendChunk with expected_offset + len > total_size (total_size known) never
\* gets past the checks and changes neither the file nor the row; when it is at the
\* layer's current offset and the layer is Uploading (the chunk would produce
\* current_offset > total_size) the answer is 413 TooLarge.
C5_TooLargeRejectedUnchanged ==
    [][\A r \in Req :
          ( /\ PassedGet(r)
            /\ IsSome(db[req[r].id].total_size)
            /\ req[r].upload_offset + req[r].len > Unwrap(db[req[r].id].total_size) )
          => /\ AnsweredByChecks(r)
             /\ ( /\ db[req[r].id].status = "Uploading"
                  /\ req[r].upload_offset = db[req[r].id].current_offset )
                => last'.resp.code = 413
             /\ db' = db
             /\ file' = file]_vars

\* C5 witness: a chunk at the current offset of an Uploading layer was answered 413
C5_Witness ==
    /\ last.resp.code = 413
    /\ Exists(last.id)
    /\ db[last.id].status = "Uploading"
    /\ db[last.id].current_offset = last.upload_offset
    /\ last.upload_offset > 0

\* the answer to a replayed chunk is OffsetMismatch with expected = the current offset
\* and received = the replayed offset, and nothing is changed
ReplayRejected(r) ==
    /\ Answered(r)
    /\ last'.resp.code = 409
    /\ last'.resp.err = "OffsetMismatch"
    /\ last'.resp.expected = db[req[r].id].current_offset
    /\ last'.resp.received = req[r].upload_offset
    /\ db' = db
    /\ file' = file

C7_NoAppendAfterTerminal ==
    [][\A id \in DOMAIN db :
          db[id].status \in {"Ready", "Failed"} =>
              /\ file'[id] = file[id]
              /\ \A r \in Req : ~(Succeeds(r) /\ req[r].id = id)]_vars

\* the edges of the status graph
StatusEdges ==
    {<<"Uploading", "Processing">>, <<"Processing", "Ready">>, <<"Processing", "Failed">>}

\* C8: the persisted status of a layer starts as Uploading and afterwards only changes
\* along Uploading -> Processing -> Ready | Failed.
C8_StatusGraph ==
    [][\A id \in DOMAIN db' :
          IF id \in DOMAIN db
          THEN \/ db'[id].status = db[id].status
               \/ <<db[id].status, db'[id].status>> \in StatusEdges
          ELSE db'[id].status = "Uploading"]_vars

\* C9: when the ingestion of a layer has failed and the request has returned, the
\* transaction is not committed and the layer's persisted status is Failed.
C9_FailedIngestionMarksFailed ==
    last.ingest = "failed" =>
        /\ last.tx # "committed"
        /\ Exists(last.id)
        /\ db[last.id].status = "Failed"

\* C10: a layer whose persisted status is Ready has a committed transaction in which
\* every feature read from its file was inserted.
C10_ReadyOnlyAfterCommit ==
    \A id \in DOMAIN db :
        db[id].status = "Ready" =>
            \E c \in commitLog[id] : c[1] = c[2] /\ c[1] > 0

\* C10 witness: a layer is Ready
C10_Witness ==
    \E id \in DOMAIN db : db[id].status = "Ready" /\ file[id] > 0

\* the ingestion run of request r commits in this step
RunCommits(r) == req[r].pc = "commit" /\ req'[r].pc = "save"

\* the ingestion run of request r ends in this step without a commit (a request
\* dropped while it saves the row has a run that committed)
RunFails(r) ==
    /\ req[r].pc # "save"
    /\ Answered(r)
    /\ last'.ingest \in {"failed", "aborted"}

C12_InsertOrderIsFeatureOrder ==
    LET lost == IF pipe.cons = "DbError" THEN <<Len(pipe.executed) + 1>> ELSE <<>>
    IN  /\ pipe.executed = [k \in 1..Len(pipe.executed) |-> k]
        /\ pipe.executed \o lost \o pipe.chan = [k \in 1..pipe.feature_count |-> k]

\* C12 witness: a run whose consumer loop ended well after at least two inserts
C12_Witness ==
    /\ pipe.cons = "Ok"
    /\ pipe.prod = "Ok"
    /\ Len(pipe.executed) >= 2

\* C13: an AppendChunk that appends to a file holding orphaned bytes (longer than the
\* current_offset the request loaded) first truncates it: after the append the file is
\* current_offset + len bytes long. (Rejecting the append is the other way allowed.)
C13_OrphanBytesNotAppendedAfter ==
    [][\A r \in Req :
          ( /\ req[r].pc = "append"
            /\ req'[r].pc = "flushed"
            /\ file[req[r].id] > req[r].layer.current_offset )
          => file'[req[r].id] = req[r].layer.current_offset + req[r].len]_vars

\* request r is between loading the layer (checks passed) and saving it
InSection(r) ==
    /\ req[r].op = "patch"
    /\ req[r].pc \in {"append", "flushed", "schema", "create_layer", "begin", "drain",
                      "commit", "save"}

\* C14: no two requests on the same layer are at the same time between loading the layer
\* and saving it (appending, running the ingestion, saving).
C14_NoInterleavingPerLayer ==
    \A r, s \in Req :
        (r # s /\ InSection(r) /\ InSection(s)) => req[r].id # req[s].id

\* request r starts the ingestion of its layer in this step
EntersIngestion(r) ==
    /\ req[r].pc = "flushed"
    /\ \/ req'[r].ingest = "running"
       \/ Answered(r) /\ last'.ingest = "failed"

\* C15: a request does not start the ingestion of a layer when the request answered
\* before it had already run the ingestion of that layer as far as its transaction.
C15_IngestionAtMostOnce ==
    [][\A r \in Req :
          EntersIngestion(r) =>
              ~(last.op = "patch" /\ last.id = req[r].id /\ last.tx # "none")]_vars

\* C16: once an empty AppendChunk at offset 0 on a layer created with total_size 0 has
\* been answered, with 204 or with the failure of its ingestion, the persisted status
\* of the layer is Ready or Failed.
C16_EmptyUploadCompletes ==
    ( /\ last.op = "patch"
      /\ last.upload_offset = 0
      /\ last.len = 0
      /\ Exists(last.id)
      /\ db[last.id].total_size = Some(0)
      /\ last.resp.code = 204 \/ last.ingest = "failed" )
    => db[last.id].status \in {"Ready", "Failed"}

\* C17: an AppendChunk with an empty body whose offset is the current_offset of an
\* Uploading layer is not rejected by the checks (no 409, no 413).
C17_EmptyChunkAccepted ==
    [][\A r \in Req :
          ( /\ req[r].pc = "get"
            /\ Exists(req[r].id)
            /\ req[r].len = 0
            /\ db[req[r].id].status = "Uploading"
            /\ req[r].upload_offset = db[req[r].id].current_offset )
          => ~AnsweredByChecks(r)]_vars

\* C18: a request starts the ingestion only when its chunk brings the offset it loaded
\* to the known total_size, and an AppendChunk answered 204 leaves the persisted layer
\* Ready, with the ingestion run, exactly when the offset it saves is the known
\* total_size; otherwise (offset short of total_size, or total_size unknown) the layer
\* is still Uploading and no ingestion ran.
C18_CompletionOnLastChunkOnly ==
    [][\A r \in Req :
          /\ EntersIngestion(r) =>
                /\ IsSome(req[r].layer.total_size)
                /\ req[r].layer.current_offset + req[r].len
                     = Unwrap(req[r].layer.total_size)
          /\ Succeeds(r) =>
                LET row == db'[req[r].id]
                IN  IF /\ IsSome(row.total_size)
                       /\ row.current_offset = Unwrap(row.total_size)
                    THEN row.status = "Ready" /\ last'.ingest = "ok"
                    ELSE row.status = "Uploading" /\ last'.ingest = "none"]_vars

\* C18 witness: an upload of length 2 sent as chunks of 1 and 1 is Ready, and the
\* request answered last is the one that ran the ingestion
C18_Witness ==
    /\ last.ingest = "ok"
    /\ last.upload_offset = 1
    /\ last.len = 1
    /\ Exists(last.id)
    /\ db[last.id].status = "Ready"
    /\ db[last.id].total_size = Some(2)
    /\ <<0, 1>> \in applied[last.id]

\* C19: no step lowers the persisted current_offset of a layer.
C19_OffsetMonotonic ==
    [][\A id \in DOMAIN db :
          db'[id].current_offset >= db[id].current_offset]_vars

\* C20: an AppendChunk on a layer id with no row is answered 404 and creates neither a
\* file nor a row.
C20_UnknownLayerNotFound ==
    [][\A r \in Req :
          ( /\ req[r].pc = "get"
            /\ ~Exists(req[r].id)
            /\ Answered(r)
            /\ last'.resp.code # -1 )
          => /\ last'.resp.code = 404
             /\ db' = db
             /\ file' = file]_vars

\* request r, a Create, is answered 201 in this step
Creates(r) ==
    /\ req[r].op = "create"
    /\ Answered(r)
    /\ last'.resp.code = 201

\* C21: a Create answered 201 has an id that had no row and that no other Create in
\* flight was given, its file exists (it was created before the row is saved) and is
\* empty, and the row it persists is Uploading with current_offset 0, so that right
\* after it the file length equals current_offset; and every layer with a row has a file.
C21_CreatePersistsEmptyLayer ==
    [][/\ \A r \in Req :
             Creates(r) =>
                 /\ ~Exists(req[r].id)
                 /\ \A s \in Req \ {r} : req[s].op = "create" => req[s].id # req[r].id
                 /\ req[r].id \in DOMAIN file
                 /\ file'[req[r].id] = 0
                 /\ req[r].id \in DOMAIN db'
                 /\ db'[req[r].id].status = "Uploading"
                 /\ db'[req[r].id].current_offset = 0
                 /\ file'[req[r].id] = db'[req[r].id].current_offset
       /\ DOMAIN db' \subseteq DOMAIN file']_vars

\* C21 witness: a Create has just been answered 201 while another request was in flight
C21_Witness ==
    /\ last.op = "create"
    /\ last.resp.code = 201
    /\ Exists(last.id)
    /\ file[last.id] = 0
    /\ \E s \in Req : InFlight(s)

\* C26: a request that has read the row of a layer that is not Uploading is answered
\* StateConflict (409, no offsets) whatever its offset and body; one that has read an
\* Uploading row with another current_offset is answered OffsetMismatch (409, expected
\* and received), also when its chunk exceeds total_size; 413 is answered only when
\* status and offset are right; a rejected request changes neither the file nor the row.
C26_CheckOrder ==
    [][\A r \in Req :
          PassedGet(r) =>
              LET row == db[req[r].id]
              IN  /\ row.status # "Uploading" =>
                        /\ Answered(r)
                        /\ last'.resp = Resp(409, "NotUploading")
                  /\ (row.status = "Uploading"
                        /\ req[r].upload_offset # row.current_offset) =>
                        /\ Answered(r)
                        /\ last'.resp =
                             [Resp(409, "OffsetMismatch")
                                EXCEPT !.expected = row.current_offset,
                                       !.received = req[r].upload_offset]
                  /\ (Answered(r) /\ last'.resp.code = 413) =>
                        /\ row.status = "Uploading"
                        /\ req[r].upload_offset = row.current_offset
                  /\ Answered(r) => db' = db /\ file' = file]_vars

\* C26 witness: a chunk at a wrong offset that also exceeds total_size was answered
\* OffsetMismatch on an Uploading layer
C26_Witness ==
    /\ last.op = "patch"
    /\ last.resp.err = "OffsetMismatch"
    /\ Exists(last.id)
    /\ db[last.id].status = "Uploading"
    /\ last.resp.expected = db[last.id].current_offset
    /\ TooLarge(db[last.id], last.upload_offset, last.len)

\* the producer's own failures
ProducerErrors == {"GdalError", "JoinError", "NoFeatures"}

C23_CommitXorRollback ==
    /\ pipe.commits + pipe.rollbacks <= 1
    /\ pipe.tx = "none" => pipe.commits + pipe.rollbacks = 0
    /\ (pipe.exit # "none" /\ pipe.tx # "none") => pipe.commits + pipe.rollbacks = 1
    /\ pipe.commits = 1 =>
          /\ pipe.prod = "Ok"
          /\ pipe.cons = "Ok"
          /\ pipe.feature_count >= 1
          /\ pipe.feature_count = pipe.nfeat
          /\ pipe.chan = <<>>
          /\ Len(pipe.executed) = pipe.feature_count
    /\ (pipe.exit = "returned" /\ pipe.tx # "none"
          /\ ~(pipe.prod = "Ok" /\ pipe.cons = "Ok")) => pipe.rollbacks = 1

\* C23 witness: a run over several features has returned with its commit issued
C23_Witness ==
    /\ pipe.exit = "returned"
    /\ pipe.commits = 1
    /\ pipe.rollbacks = 0
    /\ pipe.tx = "committed"
    /\ pipe.nfeat >= 2

\* C24: a run over a dataset without features never reaches the commit; it is answered
\* 500 (no features), its transaction rolled back, and neither the table nor the row
\* of the layer changes (the layer does not become Ready).
C24_EmptyDatasetFails ==
    [][\A r \in Req :
          req[r].pc = "drain" =>
              /\ req'[r].pc = "commit" => req'[r].feats > 0
              /\ (Answered(r) /\ last'.resp.err = "NoFeatures") =>
                    /\ last'.resp.code = 500
                    /\ last'.ingest = "failed"
                    /\ last'.tx = "rolledback"
                    /\ commitLog' = commitLog
                    /\ db' = db]_vars

\* C24 witness: a request was answered that its dataset has no features, and its layer
\* is still Uploading with nothing committed
C24_Witness ==
    /\ last.resp.err = "NoFeatures"
    /\ last.tx = "rolledback"
    /\ Exists(last.id)
    /\ db[last.id].status = "Uploading"
    /\ commitLog[last.id] = {}

C27_PipelineTerminates == <>PipeDone

\* C27 witness: the request has returned on a failed insert while the channel was full,
\* and the producer, which had features left, has ended
C27_Witness ==
    /\ pipe.exit = "returned"
    /\ pipe.cons = "DbError"
    /\ Len(pipe.chan) = ChannelCapacity
    /\ pipe.prod = "ChannelClosed"

\* the step-by-step run that returns ends as the Drain step says it does
PipeAgreesWithDrain ==
    (pipe.exit = "returned" /\ pipe.tx # "none") =>
        LET run == PipelineRun(pipe.nfeat, pipe.pfail, pipe.pjoin, pipe.ifail)
        IN  /\ PipeOutcome = run.outcome
            /\ Len(pipe.executed) = run.inserted
            /\ Verdict(pipe.cons, pipe.prod) = "commit" <=> run.outcome = "Ok"

====
